---------------------------- MODULE Spec2Model ----------------------------
(***************************************************************************)
(* A model of cloup's help formatter (src/cloup/formatting.py) and of the  *)
(* argument check it relies on (src/cloup/_util.py).                       *)
(*                                                                         *)
(* A text is a sequence of one-character strings; Python's None for an     *)
(* optional integer is the empty sequence and a given value v is <<v>>.    *)
(* The formatter object is the record fmt; the remaining variables record  *)
(* the call under way: its name, its arguments, the formatter before the   *)
(* call, the inner calls it made, what it returned and what it raised.     *)
(***************************************************************************)
EXTENDS Integers, Sequences, FiniteSets, TLC

VARIABLES pc, fmt, op, args, pre, log, ret, raised

vars == <<pc, fmt, op, args, pre, log, ret, raised>>

(***************************************************************************)
(* Python values                                                           *)
(***************************************************************************)
None == <<>>

Some(v) == <<v>>

\* Python's `x or y` for an optional integer x: None and 0 are falsy.
OrElse(x, y) == IF x # None /\ x[1] # 0 THEN x[1] ELSE y

Min(a, b) == IF a <= b THEN a ELSE b

Max(a, b) == IF a >= b THEN a ELSE b

\* " " * n, and any one character repeated: empty when n <= 0.
Rep(c, n) == [i \in 1..n |-> c]

Spaces(n) == Rep(" ", n)

NL == <<"\n">>

IsSpace(c) == c \in {" ", "\t", "\n"}

\* str.split(): the maximal runs of non-whitespace characters, in order.
RECURSIVE SplitFrom(_, _, _)
SplitFrom(text, i, word) ==
    IF i > Len(text)
    THEN IF word = <<>> THEN <<>> ELSE <<word>>
    ELSE IF IsSpace(text[i])
         THEN IF word = <<>>
              THEN SplitFrom(text, i + 1, <<>>)
              ELSE <<word>> \o SplitFrom(text, i + 1, <<>>)
         ELSE SplitFrom(text, i + 1, Append(word, text[i]))

split(text) == SplitFrom(text, 1, <<>>)

\* sep.join(words)
RECURSIVE join(_, _)
join(sep, words) ==
    IF words = <<>> THEN <<>>
    ELSE IF Len(words) = 1 THEN words[1]
    ELSE words[1] \o sep \o join(sep, Tail(words))

\* text[:n] for n >= 0
Prefix(text, n) == SubSeq(text, 1, Min(n, Len(text)))

\* text.rfind(c, 0, stop) for stop >= 0: the greatest 0-based index below
\* stop that holds c, or -1.
rfind(text, c, stop) ==
    LET hits == {i \in 0..(Min(stop, Len(text)) - 1) : text[i + 1] = c}
    IN  IF hits = {} THEN -1 ELSE CHOOSE i \in hits : \A j \in hits : j <= i

(***************************************************************************)
(* truncate_text                                                           *)
(***************************************************************************)
\* truncate_text with the cut point one short (the "+ 1" forgotten).
truncate_text_CutShort(text, max_length, placeholder) ==
    LET collapsed == join(<<" ">>, split(text))
        max_cut_point == Max(max_length - Len(placeholder), 0)
        end == rfind(collapsed, " ", max_cut_point)
    IN  IF Len(collapsed) <= max_length THEN collapsed
        ELSE IF end = -1 THEN <<>>
        ELSE Prefix(collapsed, end) \o placeholder

truncate_text(text, max_length, placeholder) ==
    LET collapsed == join(<<" ">>, split(text))
        max_cut_point == Max(max_length - Len(placeholder) + 1, 0)
        end == rfind(collapsed, " ", max_cut_point)
    IN  IF Len(collapsed) <= max_length THEN collapsed
        ELSE IF end = -1 THEN <<>>
        ELSE Prefix(collapsed, end) \o placeholder

(***************************************************************************)
(* click.formatting.wrap_text, as formatting.py uses it: a one-line text   *)
(* of letters and blanks, filled by click's TextWrapper (textwrap with     *)
(* replace_whitespace=False and click's own handling of long words).       *)
(***************************************************************************)
IsBlank(chunk) == \A i \in 1..Len(chunk) : IsSpace(chunk[i])

\* TextWrapper._split: the text cut into words and runs of whitespace.
RECURSIVE ChunksFrom(_, _, _)
ChunksFrom(text, i, cur) ==
    IF i > Len(text)
    THEN IF cur = <<>> THEN <<>> ELSE <<cur>>
    ELSE IF cur = <<>> \/ IsSpace(cur[1]) = IsSpace(text[i])
         THEN ChunksFrom(text, i + 1, Append(cur, text[i]))
         ELSE <<cur>> \o ChunksFrom(text, i + 1, <<text[i]>>)

Chunks(text) == ChunksFrom(text, 1, <<>>)

\* The inner loop of TextWrapper._wrap_chunks: take chunks while they fit.
RECURSIVE TakeFitting(_, _, _, _)
TakeFitting(chunks, cur_line, cur_len, width) ==
    IF chunks # <<>> /\ cur_len + Len(chunks[1]) <= width
    THEN TakeFitting(Tail(chunks), Append(cur_line, chunks[1]),
                     cur_len + Len(chunks[1]), width)
    ELSE [cur_line |-> cur_line, cur_len |-> cur_len, chunks |-> chunks]

\* click's TextWrapper._handle_long_word (break_long_words is True).
HandleLongWord(t, width) ==
    IF t.chunks # <<>> /\ Len(t.chunks[1]) > width
    THEN LET space_left == Max(width - t.cur_len, 1)
             last == t.chunks[1]
             cut  == Prefix(last, space_left)
             res  == SubSeq(last, Len(cut) + 1, Len(last))
         IN  [cur_line |-> Append(t.cur_line, cut),
              chunks   |-> <<res>> \o Tail(t.chunks)]
    ELSE [cur_line |-> t.cur_line, chunks |-> t.chunks]

DropTrailingBlank(cur_line) ==
    IF cur_line # <<>> /\ IsBlank(cur_line[Len(cur_line)])
    THEN SubSeq(cur_line, 1, Len(cur_line) - 1)
    ELSE cur_line

\* The outer loop of TextWrapper._wrap_chunks: the wrapped lines.
RECURSIVE WrapChunks(_, _, _, _, _)
WrapChunks(chunks, width, initial_indent, subsequent_indent, lines) ==
    IF chunks = <<>> THEN lines
    ELSE LET ind    == IF lines # <<>> THEN subsequent_indent ELSE initial_indent
             w      == width - Len(ind)
             start  == IF IsBlank(chunks[1]) /\ lines # <<>>
                       THEN Tail(chunks) ELSE chunks
             taken  == TakeFitting(start, <<>>, 0, w)
             broken == HandleLongWord(taken, w)
             line   == DropTrailingBlank(broken.cur_line)
         IN  WrapChunks(broken.chunks, width, initial_indent, subsequent_indent,
                        IF line = <<>> THEN lines
                        ELSE Append(lines, ind \o join(<<>>, line)))

LeadingBlanks(text) ==
    Cardinality({i \in 1..Len(text) : \A j \in 1..i : IsSpace(text[j])})

\* wrap_text(text, width, initial_indent, subsequent_indent,
\* preserve_paragraphs=True) for a non-empty one-line text: the lines of the
\* result, or ValueError when the wrapper's width is not positive.
wrap_text(text, width, initial_indent, subsequent_indent) ==
    LET lead  == LeadingBlanks(text)
        extra == Spaces(lead)
        body  == SubSeq(text, lead + 1, Len(text))
    IN  IF width <= 0
        THEN [err |-> "ValueError", lines |-> <<>>]
        ELSE [err |-> "none",
              lines |-> WrapChunks(Chunks(body), width, initial_indent \o extra,
                                   subsequent_indent \o extra, <<>>)]

(***************************************************************************)
(* The formatter object and the result of running code on it.  A result    *)
(* is [f, err, log]: the formatter as the code left it, the exception     *)
(* that ended the code ("none" when it returned), and the definition-list  *)
(* renderers that write_dl dispatched to, in order.  Once err is set the   *)
(* remaining statements do not run.                                        *)
(***************************************************************************)
Start(f) == [f |-> f, err |-> "none", log |-> <<>>]

Raise(R, e) == IF R.err # "none" THEN R ELSE [R EXCEPT !.err = e]

\* check_positive_int for an integer value: the exception it raises.
check_positive_int(value) == IF value <= 0 THEN "ValueError" ELSE "none"

\* HelpFormatter.__init__ with an explicit width: the new formatter, or the
\* exception of the first failing check.
HelpFormatter_init(indent_increment, width, col1_max_width, col2_min_width, col_spacing, row_sep) ==
    LET f == [indent_increment |-> indent_increment,
              width            |-> width,
              col1_max_width   |-> col1_max_width,
              col2_min_width   |-> col2_min_width,
              col_spacing      |-> col_spacing,
              row_sep          |-> row_sep,
              current_indent   |-> 0,
              buffer           |-> <<>>]
    IN  IF check_positive_int(col1_max_width) # "none"
        THEN [f |-> None, err |-> check_positive_int(col1_max_width), log |-> <<>>]
        ELSE IF check_positive_int(col_spacing) # "none"
        THEN [f |-> None, err |-> check_positive_int(col_spacing), log |-> <<>>]
        ELSE Start(f)

\* click.HelpFormatter.write: append one string to the buffer.
write(R, string) ==
    IF R.err # "none" THEN R ELSE [R EXCEPT !.f.buffer = Append(@, string)]

\* click.HelpFormatter.indent and dedent.
indent(R) ==
    IF R.err # "none" THEN R
    ELSE [R EXCEPT !.f.current_indent = @ + R.f.indent_increment]

\* dedent runs in the finally clause of section(): also after an exception.
dedent(R) == [R EXCEPT !.f.current_indent = @ - R.f.indent_increment]

\* click.HelpFormatter.write_paragraph
write_paragraph(R) ==
    IF R.err # "none" THEN R
    ELSE IF R.f.buffer # <<>> THEN write(R, NL) ELSE R

\* click.HelpFormatter.write_heading
write_heading(R, heading) ==
    IF R.err # "none" THEN R
    ELSE write(R, Spaces(R.f.current_indent) \o heading \o <<":">> \o NL)

\* click.HelpFormatter.write_text
write_text(R, text) ==
    IF R.err # "none" THEN R
    ELSE LET ind == Spaces(R.f.current_indent)
             w   == wrap_text(text, R.f.width, ind, ind)
         IN  IF w.err # "none" THEN Raise(R, w.err)
             ELSE write(write(R, join(NL, w.lines)), NL)

\* HelpFormatter.getvalue
getvalue(f) == join(<<>>, f.buffer)

(***************************************************************************)
(* Column widths                                                           *)
(***************************************************************************)
compute_col_width(strings, max_width) ==
    LET lengths_under_limit ==
            {Len(strings[i]) : i \in {j \in 1..Len(strings) : Len(strings[j]) <= max_width}}
    IN  IF lengths_under_limit = {} THEN 0
        ELSE CHOOSE m \in lengths_under_limit : \A n \in lengths_under_limit : n <= m

Col1Strings(rows) == [i \in 1..Len(rows) |-> rows[i][1]]

\* determine_col_widths with the first column capped by the configured
\* maximum alone (the available width forgotten).
determine_col_widths_NoClamp(f, col1_width, rows, col1_max_width, col_spacing) ==
    IF ~(OrElse(col1_width, 0) # 0 \/ rows # <<>>)
    THEN [err |-> "ValueError", col1_width |-> 0, col2_width |-> 0]
    ELSE LET available_width == f.width - f.current_indent
             actual_col1_max_width == OrElse(col1_max_width, f.col1_max_width)
             c1 == Min(IF OrElse(col1_width, 0) # 0 THEN col1_width[1]
                       ELSE compute_col_width(Col1Strings(rows), actual_col1_max_width),
                       actual_col1_max_width)
             spacing == OrElse(col_spacing, f.col_spacing)
         IN  [err |-> "none", col1_width |-> c1,
              col2_width |-> available_width - c1 - spacing]

\* rows is a sequence of pairs; the empty sequence also stands for None,
\* which the code tests and uses the same way.
determine_col_widths(f, col1_width, rows, col1_max_width, col_spacing) ==
    IF ~(OrElse(col1_width, 0) # 0 \/ rows # <<>>)
    THEN [err |-> "ValueError", col1_width |-> 0, col2_width |-> 0]
    ELSE LET available_width == f.width - f.current_indent
             actual_col1_max_width ==
                 Min(OrElse(col1_max_width, f.col1_max_width), available_width)
             c1 == Min(IF OrElse(col1_width, 0) # 0 THEN col1_width[1]
                       ELSE compute_col_width(Col1Strings(rows), actual_col1_max_width),
                       actual_col1_max_width)
             spacing == OrElse(col_spacing, f.col_spacing)
         IN  [err |-> "none", col1_width |-> c1,
              col2_width |-> available_width - c1 - spacing]

(***************************************************************************)
(* Definition lists                                                        *)
(***************************************************************************)
\* The indentation of a description in a linear list.
DescrIndent == 4

\* One row of write_tabular_dl (the body of its for loop).
TabularRow(R, row, col1_width, col_spacing, col2_width, strategy) ==
    LET first  == row[1]
        second == row[2]
        col1_plus_spacing_width == col1_width + col_spacing
        current_indentation == Spaces(R.f.current_indent)
        col2_indentation ==
            Spaces(R.f.current_indent + Max(R.f.indent_increment, col1_plus_spacing_width))
        R1 == write(write(R, current_indentation), first)
        R2 == IF Len(first) <= col1_width
              THEN write(R1, Spaces(col1_plus_spacing_width - Len(first)))
              ELSE write(write(R1, NL), col2_indentation)
        wrapped == wrap_text(second, col2_width, <<>>, <<>>)
        R3 == IF strategy = "wrap"
              THEN IF wrapped.err # "none" THEN Raise(R2, wrapped.err)
                   ELSE IF wrapped.lines = <<>> THEN Raise(R2, "IndexError")
                   ELSE LET WriteLines[i \in 1..(Len(wrapped.lines) + 1)] ==
                                IF i = 1 THEN write(R2, wrapped.lines[1] \o NL)
                                ELSE write(WriteLines[i - 1],
                                           col2_indentation \o wrapped.lines[i] \o NL)
                        IN  WriteLines[Len(wrapped.lines)]
              ELSE write(write(R2, truncate_text(second, col2_width, <<".", ".", ".">>)), NL)
    IN  IF second = <<>>
        THEN write(write(R1, NL), R.f.row_sep)
        ELSE IF R.f.row_sep # <<>> THEN write(R3, R.f.row_sep) ELSE R3

RECURSIVE TabularRows(_, _, _, _, _, _)
TabularRows(R, rows, col1_width, col_spacing, col2_width, strategy) ==
    IF rows = <<>> \/ R.err # "none" THEN R
    ELSE TabularRows(TabularRow(R, rows[1], col1_width, col_spacing, col2_width, strategy),
                     Tail(rows), col1_width, col_spacing, col2_width, strategy)

write_tabular_dl(R, rows, col1_width, col_spacing, col2_width, strategy) ==
    TabularRows(R, rows, col1_width, col_spacing, col2_width, strategy)

\* The width write_linear_dl truncates a description to.
descr_max_width(f) == f.width - f.current_indent - f.indent_increment

\* One row of write_linear_dl (the body of its for loop); the widths and
\* indentations are the ones computed before the loop.
LinearRow(R, row, max_width, indentation, descr_indentation, strategy) ==
    LET names == row[1]
        descr == row[2]
        R1 == write(R, indentation \o names \o NL)
        R2 == IF descr = <<>> THEN R1
              ELSE IF strategy = "wrap"
              THEN LET In  == [R1 EXCEPT !.f.current_indent = @ + DescrIndent]
                       Out == write_text(In, descr)
                   IN  IF Out.err # "none" THEN Out
                       ELSE [Out EXCEPT !.f.current_indent = @ - DescrIndent]
              ELSE write(R1, descr_indentation
                             \o truncate_text(descr, max_width, <<".", ".", ".">>) \o NL)
    IN  write(R2, NL)

RECURSIVE LinearRows(_, _, _, _, _, _)
LinearRows(R, rows, max_width, indentation, descr_indentation, strategy) ==
    IF rows = <<>> \/ R.err # "none" THEN R
    ELSE LinearRows(LinearRow(R, rows[1], max_width, indentation, descr_indentation, strategy),
                    Tail(rows), max_width, indentation, descr_indentation, strategy)

\* list.pop() of the buffer
buffer_pop(R) ==
    IF R.err # "none" THEN R
    ELSE IF R.f.buffer = <<>> THEN Raise(R, "IndexError")
    ELSE [R EXCEPT !.f.buffer = SubSeq(@, 1, Len(@) - 1)]

write_linear_dl(R, rows, strategy) ==
    IF R.err # "none" THEN R
    ELSE buffer_pop(LinearRows(R, rows, descr_max_width(R.f),
                               Spaces(R.f.current_indent),
                               Spaces(R.f.current_indent + DescrIndent), strategy))

\* The test of write_dl with <= for <.
IsLinear_OrEqual(f, col2_width, col2_min_width) == col2_width <= f.col2_min_width

\* The test of write_dl that sends the rows to the linear renderer.
IsLinear(f, col2_width, col2_min_width) == col2_width < f.col2_min_width

\* What the log keeps of one renderer call made by write_dl.
Dispatched(name, rows, strategy, w, before, R) ==
    [name |-> name, rows |-> rows, strategy |-> strategy,
     col1_width |-> w.col1_width, col2_width |-> w.col2_width,
     before |-> before, after |-> R.f, err |-> R.err]

write_dl(R, rows, col_max, col_spacing, col1_width, col2_min_width, strategy) ==
    IF R.err # "none" THEN R
    ELSE IF strategy \notin {"wrap", "truncate"} THEN Raise(R, "ValueError")
    ELSE LET spacing == OrElse(col_spacing, R.f.col_spacing)
             w == determine_col_widths(R.f, col1_width, rows, col_max, Some(spacing))
         IN  IF w.err # "none" THEN Raise(R, w.err)
             ELSE LET name == IF IsLinear(R.f, w.col2_width, col2_min_width)
                              THEN "write_linear_dl" ELSE "write_tabular_dl"
                      Out  == IF name = "write_linear_dl"
                              THEN write_linear_dl(R, rows, strategy)
                              ELSE write_tabular_dl(R, rows, w.col1_width, spacing,
                                                    w.col2_width, strategy)
                  IN  [Out EXCEPT !.log = Append(@, Dispatched(name, rows, strategy, w, R.f, Out))]

(***************************************************************************)
(* Sections: [heading, definitions, description]; an absent or empty       *)
(* description is the empty text.                                          *)
(***************************************************************************)
write_section(R, s, col1_width, strategy) ==
    IF R.err # "none" THEN R
    ELSE LET Entered == indent(write_heading(write_paragraph(R), s.heading))
             Descr   == IF s.description # <<>>
                        THEN LET T == write_text(Entered, s.description)
                             IN  IF R.f.row_sep # <<>> THEN write(T, R.f.row_sep) ELSE T
                        ELSE Entered
         IN  dedent(write_dl(Descr, s.definitions, None, None, col1_width, None, strategy))

RECURSIVE WriteSections(_, _, _, _)
WriteSections(R, sections, col1_width, strategy) ==
    IF sections = <<>> \/ R.err # "none" THEN R
    ELSE WriteSections(write_section(R, sections[1], col1_width, strategy),
                       Tail(sections), col1_width, strategy)

RECURSIVE AllCol1Strings(_)
AllCol1Strings(sections) ==
    IF sections = <<>> THEN <<>>
    ELSE Col1Strings(sections[1].definitions) \o AllCol1Strings(Tail(sections))

\* write_aligned_sections measuring the first section's terms only.
write_aligned_sections_FirstOnly(R, sections, strategy) ==
    IF R.err # "none" THEN R
    ELSE LET col1_width == compute_col_width(AllCol1Strings(SubSeq(sections, 1, 1)),
                                             R.f.col1_max_width)
         IN  WriteSections(R, sections, Some(col1_width), strategy)

write_aligned_sections(R, sections, strategy) ==
    IF R.err # "none" THEN R
    ELSE LET col1_width == compute_col_width(AllCol1Strings(sections), R.f.col1_max_width)
         IN  WriteSections(R, sections, Some(col1_width), strategy)

write_many_sections(R, sections, aligned, strategy) ==
    IF aligned THEN write_aligned_sections(R, sections, strategy)
    ELSE WriteSections(R, sections, None, strategy)

(***************************************************************************)
(* Bounds and the inputs the calls are made with                           *)
(***************************************************************************)
\* Texts given to truncate_text have at most this many characters.
MaxTextLen == 5

\* A render call starts from a buffer of at most this many strings.
MaxPrior == 1

\* indent() is called at most this many times more than dedent().
MaxIndentLevel == 2

\* A list of sections has at most this many sections.
MaxSections == 2

Term(n) == Rep("a", n)

Sp == <<" ">>

Dots == <<".", ".", ".">>

Strategies == {"wrap", "truncate", "fold"}

ValidStrategies == {"wrap", "truncate"}

Descriptions ==
    [none  |-> <<>>,
     short |-> Rep("b", 2) \o Sp \o Rep("c", 2),
     word  |-> Rep("b", 8),
     long  |-> Rep("b", 3) \o Sp \o Rep("c", 3) \o Sp \o Rep("d", 3)]

RowLists ==
    { <<>>,
      << <<Term(2), Descriptions.short>> >>,
      << <<Term(3), Descriptions.long>> >>,
      << <<Term(3), Descriptions.word>>, <<Term(2), Descriptions.none>> >>,
      << <<Term(6), Descriptions.long>>, <<Term(2), Descriptions.short>> >> }

Section(h, rows, d) == [heading |-> <<h>>, definitions |-> rows, description |-> d]

Sections ==
    { Section("A", << <<Term(2), Descriptions.short>> >>, <<>>),
      Section("B", << <<Term(5), Descriptions.long>>, <<Term(3), Descriptions.none>> >>,
              Rep("d", 2) \o Sp \o Rep("e", 2)),
      Section("C", << <<Term(8), Descriptions.word>> >>, <<>>),
      Section("E", <<>>, <<>>),
      Section("F", <<>>, Rep("d", 2)) }

SectionLists == UNION {[1..n -> Sections] : n \in 1..MaxSections}

Config(ii, w, c1, c2, sp, rs) ==
    [indent_increment |-> ii, width |-> w, col1_max_width |-> c1,
     col2_min_width |-> c2, col_spacing |-> sp, row_sep |-> rs]

ConfigsWidths ==
    {Config(ii, w, c1, 20, sp, <<>>) : ii \in {2, 4}, w \in {3, 10, 24}, c1 \in {4, 30}, sp \in {1, 2}}

ConfigsDl ==
    {Config(ii, w, c1, c2, 2, rs) : ii \in {2, 4}, w \in {10, 24}, c1 \in {4, 30}, c2 \in {4, 20}, rs \in {<<>>, NL}}

ConfigsSections ==
    {Config(2, w, c1, c2, 2, rs) : w \in {9, 40}, c1 \in {6, 30}, c2 \in {4, 20}, rs \in {<<>>, NL}}

ConfigsNew ==
    {Config(2, w, c1, c2, sp, <<>>) : w \in {6, 10}, c1 \in {-1, 0, 5}, c2 \in {-5, 0, 4}, sp \in {-1, 0, 2}}

Alphabet == {"a", " ", "\t"}

Lorem ==
    <<"l", "o", "r", "e", "m", " ", "i", "p", "s", "u", "m", " ", "d", "o", "l", "o", "r">>

Texts == UNION {[1..n -> Alphabet] : n \in 0..MaxTextLen} \cup {Lorem}

MaxLengths == (-1..(MaxTextLen + 1)) \cup {10}

Placeholders == {<<>>, <<".">>, Dots}

(***************************************************************************)
(* The state machine: one action per call                                  *)
(***************************************************************************)
New(c) ==
    HelpFormatter_init(c.indent_increment, c.width, c.col1_max_width,
                       c.col2_min_width, c.col_spacing, c.row_sep)

\* A call of `name` with arguments a that ended as R and returned r.  The
\* formatter is set up (pc = "ready") by write, indent and dedent, and then
\* used for the one call under examination (pc = "done").
Called(name, a, R, r) ==
    /\ pc' = IF name \in {"write", "indent", "dedent"} THEN "ready" ELSE "done"
    /\ op' = name
    /\ args' = a
    /\ pre' = fmt
    /\ fmt' = R.f
    /\ log' = R.log
    /\ raised' = R.err
    /\ ret' = r

\* The state right after HelpFormatter(**c) returned.
Constructed(configs) ==
    \E c \in configs :
        /\ New(c).err = "none"
        /\ pc = "ready"
        /\ fmt = New(c).f
        /\ op = "HelpFormatter"
        /\ args = c
        /\ pre = None
        /\ log = <<>>
        /\ ret = None
        /\ raised = "none"

CanRender == pc = "ready" /\ Len(fmt.buffer) <= MaxPrior

Do_write ==
    /\ pc = "ready"
    /\ Len(fmt.buffer) < MaxPrior
    /\ Called("write", [string |-> <<"x", "\n">>], write(Start(fmt), <<"x", "\n">>), None)

Do_indent ==
    /\ pc = "ready"
    /\ fmt.current_indent < MaxIndentLevel * fmt.indent_increment
    /\ Called("indent", <<>>, indent(Start(fmt)), None)

Do_dedent ==
    /\ pc = "ready"
    /\ fmt.current_indent > 0
    /\ Called("dedent", <<>>, dedent(Start(fmt)), None)

Do_determine_col_widths ==
    /\ pc = "ready"
    /\ \E c1 \in {None, Some(0), Some(2), Some(7)}, rows \in RowLists,
          cm \in {None, Some(0), Some(3)}, cs \in {None, Some(0), Some(1), Some(3)} :
          LET w == determine_col_widths(fmt, c1, rows, cm, cs)
          IN  Called("determine_col_widths",
                     [col1_width |-> c1, rows |-> rows, col1_max_width |-> cm, col_spacing |-> cs],
                     [f |-> fmt, err |-> w.err, log |-> <<>>],
                     <<w.col1_width, w.col2_width>>)

Do_write_dl ==
    /\ CanRender
    /\ \E rows \in RowLists, cm \in {None, Some(3)}, cs \in {None, Some(1)},
          c1 \in {None, Some(5)}, c2 \in {None, Some(2), Some(30)}, st \in Strategies :
          Called("write_dl",
                 [rows |-> rows, col_max |-> cm, col_spacing |-> cs, col1_width |-> c1,
                  col2_min_width |-> c2, strategy |-> st],
                 write_dl(Start(fmt), rows, cm, cs, c1, c2, st), None)

Do_write_linear_dl ==
    /\ CanRender
    /\ \E rows \in RowLists, st \in Strategies :
          Called("write_linear_dl", [rows |-> rows, strategy |-> st],
                 write_linear_dl(Start(fmt), rows, st), None)

Do_write_section ==
    /\ CanRender
    /\ \E s \in Sections, c1 \in {None, Some(5)}, st \in Strategies :
          Called("write_section", [sections |-> <<s>>, col1_width |-> c1, strategy |-> st],
                 write_section(Start(fmt), s, c1, st), None)

Do_write_many_sections ==
    /\ CanRender
    /\ \E ss \in SectionLists, al \in BOOLEAN, st \in Strategies :
          Called("write_many_sections", [sections |-> ss, aligned |-> al, strategy |-> st],
                 write_many_sections(Start(fmt), ss, al, st), None)

\* HelpFormatter(**args): the constructor runs on the arguments Init drew.
Do_HelpFormatter ==
    /\ pc = "new"
    /\ pc' = IF New(args).err = "none" THEN "ready" ELSE "failed"
    /\ fmt' = New(args).f
    /\ raised' = New(args).err
    /\ op' = "HelpFormatter"
    /\ UNCHANGED <<args, pre, log, ret>>

\* truncate_text(**args): the function runs on the arguments Init drew.
Do_truncate_text ==
    /\ pc = "call"
    /\ op = "truncate_text"
    /\ pc' = "done"
    /\ ret' = truncate_text(args.text, args.max_length, args.placeholder)
    /\ UNCHANGED <<fmt, op, args, pre, log, raised>>

(***************************************************************************)
(* Specifications                                                          *)
(***************************************************************************)
InitWidths == Constructed(ConfigsWidths)

NextWidths == Do_indent \/ Do_dedent \/ Do_determine_col_widths

SpecWidths == InitWidths /\ [][NextWidths]_vars

InitDl == Constructed(ConfigsDl)

NextDl == Do_write \/ Do_indent \/ Do_dedent \/ Do_write_dl \/ Do_write_linear_dl

SpecDl == InitDl /\ [][NextDl]_vars

InitSections == Constructed(ConfigsSections)

NextSections ==
    Do_write \/ Do_indent \/ Do_dedent \/ Do_write_section \/ Do_write_many_sections

SpecSections == InitSections /\ [][NextSections]_vars

InitNew ==
    /\ pc = "new"
    /\ args \in ConfigsNew
    /\ fmt = None
    /\ op = "none"
    /\ pre = None
    /\ log = <<>>
    /\ ret = None
    /\ raised = "none"

NextNew == Do_HelpFormatter \/ Do_write_dl

SpecNew == InitNew /\ [][NextNew]_vars

InitTruncate ==
    /\ pc = "call"
    /\ op = "truncate_text"
    /\ args \in [text : Texts, max_length : MaxLengths, placeholder : Placeholders]
    /\ fmt = None
    /\ pre = None
    /\ log = <<>>
    /\ ret = None
    /\ raised = "none"

NextTruncate == Do_truncate_text

SpecTruncate == InitTruncate /\ [][NextTruncate]_vars

Init == InitDl

Next == NextDl

Spec == SpecDl

(***************************************************************************)
(* Claims                                                                  *)
(***************************************************************************)
Last(q) == q[Len(q)]

\* The greatest element of a non-empty set of integers.
Greatest(S) == CHOOSE m \in S : \A n \in S : n <= m

\* The calls of write_linear_dl in the call just made: the call itself, or
\* the ones write_dl dispatched.
LinearCalls ==
    IF op = "write_linear_dl"
    THEN {[rows |-> args.rows, strategy |-> args.strategy, before |-> pre,
           after |-> fmt, err |-> raised]}
    ELSE {[rows |-> log[i].rows, strategy |-> log[i].strategy, before |-> log[i].before,
           after |-> log[i].after, err |-> log[i].err] :
          i \in {j \in 1..Len(log) : log[j].name = "write_linear_dl"}}

\* C1: whenever write_dl gets a valid strategy and width resolution succeeds
\* (a col1_width or some rows are given), it dispatches exactly once, to
\* write_linear_dl if and only if the resolved col2_width is strictly below
\* the formatter's col2_min_width, and to write_tabular_dl otherwise; with
\* col2_min_width = 20, a col2_width of 19 is linear and one of 20 tabular.
C1_ModeSelection ==
    (/\ pc = "done"
     /\ op = "write_dl"
     /\ args.strategy \in ValidStrategies
     /\ (OrElse(args.col1_width, 0) # 0 \/ args.rows # <<>>))
    => /\ Len(log) = 1
       /\ log[1].name \in {"write_linear_dl", "write_tabular_dl"}
       /\ (log[1].name = "write_linear_dl") <=> (log[1].col2_width < pre.col2_min_width)
       /\ (pre.col2_min_width = 20 /\ log[1].col2_width = 19)
              => log[1].name = "write_linear_dl"
       /\ (pre.col2_min_width = 20 /\ log[1].col2_width = 20)
              => log[1].name = "write_tabular_dl"

C1_Witness ==
    /\ pc = "done"
    /\ op = "write_dl"
    /\ pre.col2_min_width = 20
    /\ Len(log) = 1
    /\ log[1].col2_width = 20
    /\ log[1].name = "write_tabular_dl"
    /\ raised = "none"

\* C2: every call of determine_col_widths that returns gives a col1_width
\* that is at most the col1 maximum in effect and at most the available
\* width (width - current_indent), and a col2_width equal to the available
\* width minus col1_width minus the spacing in effect, with no flooring.  An
\* argument of None or 0 leaves the formatter's own value in effect.
C2_ResolvedWidths ==
    (pc = "done" /\ op = "determine_col_widths" /\ raised = "none")
    => LET available == fmt.width - fmt.current_indent
           maximum   == OrElse(args.col1_max_width, fmt.col1_max_width)
           spacing   == OrElse(args.col_spacing, fmt.col_spacing)
       IN  /\ ret[1] <= maximum
           /\ ret[1] <= available
           /\ ret[2] = available - ret[1] - spacing

C2_Witness ==
    /\ pc = "done"
    /\ op = "determine_col_widths"
    /\ raised = "none"
    /\ args.col1_width # None
    /\ args.rows # <<>>
    /\ ret[1] = fmt.width - fmt.current_indent
    /\ ret[2] < 0

\* The text with every run of whitespace that lies between two words turned
\* into one space and the other whitespace dropped.
CollapseWhitespace(text) ==
    LET kept == {i \in 1..Len(text) :
                    \/ ~IsSpace(text[i])
                    \/ /\ \E j \in 1..(i - 1) : ~IsSpace(text[j])
                       /\ i < Len(text)
                       /\ ~IsSpace(text[i + 1])}
        nth(k) == CHOOSE i \in kept : Cardinality({j \in kept : j < i}) = k - 1
    IN  [k \in 1..Cardinality(kept) |->
            IF IsSpace(text[nth(k)]) THEN " " ELSE text[nth(k)]]

LoremCut == <<"l", "o", "r", "e", "m", ".", ".", ".">>

\* C4: truncate_text returns the whitespace-collapsed text when it has at
\* most max_length characters; otherwise the collapsed text cut at the
\* rightmost space whose index is below max(max_length - len(placeholder) + 1, 0)
\* followed by the placeholder, or the empty string when there is no such
\* space.  The result never has more than max(max_length, 0) characters, and
\* truncate_text('lorem ipsum dolor', 10) = 'lorem...'.
C4_TruncationResult ==
    (pc = "done" /\ op = "truncate_text")
    => LET c     == CollapseWhitespace(args.text)
           n     == args.max_length
           limit == Max(n - Len(args.placeholder) + 1, 0)
           cuts  == {i \in 0..(Len(c) - 1) : i < limit /\ c[i + 1] = " "}
       IN  /\ (Len(c) <= n) => ret = c
           /\ (Len(c) > n /\ cuts = {}) => ret = <<>>
           /\ (Len(c) > n /\ cuts # {})
                  => ret = SubSeq(c, 1, Greatest(cuts)) \o args.placeholder
           /\ Len(ret) <= Max(n, 0)
           /\ (args.text = Lorem /\ n = 10 /\ args.placeholder = Dots) => ret = LoremCut

C4_Witness ==
    /\ pc = "done"
    /\ op = "truncate_text"
    /\ args.text = Lorem
    /\ args.max_length = 10
    /\ args.placeholder = Dots
    /\ ret = LoremCut

\* The length of the longest term of a non-empty list of rows.
LongestTerm(rows) == Greatest({Len(rows[i][1]) : i \in 1..Len(rows)})

\* Two sections that both have rows and whose longest terms differ in
\* length were rendered aligned.
AlignedPair ==
    /\ pc = "done"
    /\ op = "write_many_sections"
    /\ args.aligned
    /\ args.strategy \in ValidStrategies
    /\ Len(args.sections) = 2
    /\ \A i \in 1..2 : args.sections[i].definitions # <<>>
    /\ LongestTerm(args.sections[1].definitions) # LongestTerm(args.sections[2].definitions)

\* The formatter as it is inside a section: indented once.
InsideSection == [pre EXCEPT !.current_indent = @ + pre.indent_increment]

\* The column-1 width section i resolves to when it is rendered on its own.
Independent(i) ==
    determine_col_widths(InsideSection, None, args.sections[i].definitions, None, None).col1_width

\* No term is longer than the width available inside the section while
\* still within col1_max_width.
NoTermOverAvailable ==
    \A i \in 1..Len(args.sections) :
        \A j \in 1..Len(args.sections[i].definitions) :
            LET n == Len(args.sections[i].definitions[j][1])
            IN  ~(n > InsideSection.width - InsideSection.current_indent
                  /\ n <= pre.col1_max_width)

C5_ArgumentIsThreshold ==
    (pc = "done" /\ op = "write_dl" /\ args.col2_min_width # None /\ Len(log) = 1)
    => ((log[1].name = "write_linear_dl") <=> (log[1].col2_width < args.col2_min_width[1]))

\* C6: write_section and write_many_sections, called on a non-empty list of
\* sections with a strategy other than "wrap" and "truncate", raise and
\* leave the buffer and the indentation as they were before the call.
C6_NoPartialOutput ==
    (/\ pc = "done"
     /\ op \in {"write_section", "write_many_sections"}
     /\ args.sections # <<>>
     /\ args.strategy \notin ValidStrategies)
    => /\ raised # "none"
       /\ fmt.buffer = pre.buffer
       /\ fmt.current_indent = pre.current_indent

\* C7: a col1_max_width, col2_min_width or col_spacing that is <= 0 makes
\* the constructor or the first render call fail: no render call returns on
\* a formatter that holds a non-positive one.
C7_NonPositiveRejected ==
    (pc = "done" /\ op = "write_dl" /\ raised = "none")
    => /\ pre.col1_max_width > 0
       /\ pre.col2_min_width > 0
       /\ pre.col_spacing > 0

NotEmptySection(s) == ~(s.definitions = <<>> /\ s.description = <<>>)

\* C8: write_many_sections, given a list that contains a section with no
\* rows and no description, returns without raising and leaves the output it
\* leaves for the list without such sections.
C8_EmptySectionSkipped ==
    (/\ pc = "done"
     /\ op = "write_many_sections"
     /\ args.strategy \in ValidStrategies
     /\ \E i \in 1..Len(args.sections) : ~NotEmptySection(args.sections[i]))
    => /\ raised = "none"
       /\ getvalue(fmt) =
              getvalue(write_many_sections(Start(pre), SelectSeq(args.sections, NotEmptySection),
                                           args.aligned, args.strategy).f)

\* The strings a call of write_linear_dl added to the buffer.
Added(c) == SubSeq(c.after.buffer, Len(c.before.buffer) + 1, Len(c.after.buffer))

\* The strings among `strings` (from the k-th on) that hold the
\* descriptions of `rows`: a row writes its term, its description when it
\* has one, and a separator.
RECURSIVE DescrStrings(_, _, _)
DescrStrings(rows, strings, k) ==
    IF rows = <<>> THEN {}
    ELSE IF rows[1][2] = <<>> THEN DescrStrings(Tail(rows), strings, k + 2)
    ELSE {strings[k + 1]} \cup DescrStrings(Tail(rows), strings, k + 3)

\* C9: in a linear list with the truncate strategy every description is
\* written indented by current_indent + 4 and truncated to at most
\* width - (current_indent + 4) characters: its line fits the width.
C9_LinearTruncateFits ==
    \A c \in LinearCalls :
        (pc = "done" /\ c.strategy = "truncate" /\ c.rows # <<>> /\ c.err = "none")
        => \A d \in DescrStrings(c.rows, Added(c), 1) :
               /\ Len(d) >= c.before.current_indent + DescrIndent + 1
               /\ SubSeq(d, 1, c.before.current_indent + DescrIndent)
                      = Spaces(c.before.current_indent + DescrIndent)
               /\ Last(d) = "\n"
               /\ Len(d) - 1 <= c.before.width

\* What write_linear_dl is to add: every row with its separator, less the
\* separator of the last row.
RowsLessLastSeparator(c) ==
    LET written == LinearRows(Start([c.before EXCEPT !.buffer = <<>>]), c.rows,
                              descr_max_width(c.before), Spaces(c.before.current_indent),
                              Spaces(c.before.current_indent + DescrIndent),
                              c.strategy).f.buffer
    IN  IF written = <<>> THEN <<>> ELSE SubSeq(written, 1, Len(written) - 1)

\* C10: write_linear_dl, for every list of rows (the empty one included)
\* and every buffer, returns with the buffer it found as a prefix of the
\* buffer it leaves, the indentation unchanged, and the rows added with a
\* blank line after each but the last.
C10_LinearOnlyAppends ==
    \A c \in LinearCalls :
        (pc = "done" /\ c.strategy \in ValidStrategies)
        => /\ c.err = "none"
           /\ Len(c.after.buffer) >= Len(c.before.buffer)
           /\ SubSeq(c.after.buffer, 1, Len(c.before.buffer)) = c.before.buffer
           /\ c.after.current_indent = c.before.current_indent
           /\ Added(c) = RowsLessLastSeparator(c)

=============================================================================
